---- MODULE Spec2Model ----
(***************************************************************************)
(* Model of app_deployment_helpers:                                        *)
(*   cf_helpers.py       get_info and the target/login decision            *)
(*   cf_api.py           the "cf curl" resource client                     *)
(*   gearpump_helpers.py the Gearpump submission helper                    *)
(* cf_cli.py (CfInfo, get_command_output, get_current_cli_target) is not   *)
(* part of the sources at hand; the definitions that stand for it are     *)
(* written from the specification text.                                    *)
(***************************************************************************)
EXTENDS Integers, Sequences, FiniteSets, TLC

(***************************************************************************)
(* Values                                                                  *)
(***************************************************************************)

\* Strings a target field, an override or a prompt answer can hold.  "" is
\* the falsy value (an empty string, or None for an omitted flag).
Values == {"", "a", "b"}

\* cf_cli.CfInfo key names.
API_URL_KEY == "api_url"
USER_KEY == "user"
PASSWORD_KEY == "password"
ORG_KEY == "org"
SPACE_KEY == "space"

\* Keys of CfInfo.get_empty().get_target_dict(), the fields of a target.
TargetKeys == {API_URL_KEY, USER_KEY, PASSWORD_KEY, ORG_KEY, SPACE_KEY}

\* CfInfo.get_login_keys(): the fields compared with the current target to
\* decide on a login.  The password is never compared with a stored value.
get_login_keys == {API_URL_KEY, USER_KEY}

\* CfInfo.get_org_space_keys()
get_org_space_keys == {ORG_KEY, SPACE_KEY}

\* CfInfo.get_empty().get_target_dict()
get_empty == [k \in TargetKeys |-> ""]

\* The targets cf_cli.get_current_cli_target() can report: "cf target" shows
\* the API endpoint, user, org and space; the password of the session is
\* never exposed, so that field is blank.
CurrentTargets == {t \in [TargetKeys -> Values] : t[PASSWORD_KEY] = ""}

\* The override dictionaries arg_info.get_target_dict(include_password=True).
ArgTargets == [TargetKeys -> Values]

\* No cf_api function has been called yet.
NoRequest == [op |-> "none"]
NoResult == [status |-> "none", value |-> <<>>]

VARIABLES
    pc,                 \* position of the calling script: "start", "done"
    current_target,     \* get_info: cf_cli.get_current_cli_target()
    arg_provided_target,\* get_info: the command-line overrides
    new_target,         \* get_info: result of _extract_new_target
    login_required,     \* get_info: decision
    target_required,    \* get_info: decision
    raw_inputs,         \* fields for which _raw_input_default was invoked
    getpass_calls,      \* number of getpass.unix_getpass() invocations
    request,            \* cf_api: the function called and its arguments
    responses,          \* cf_api: what "cf curl" answered, call by call
    calls,              \* cf_api: the "cf curl" commands issued, in order
    result,             \* cf_api: how the function ended and its value
    files               \* gearpump_helpers: the files on disk, name to content

targetVars == <<current_target, arg_provided_target, new_target,
                login_required, target_required, raw_inputs, getpass_calls>>

apiVars == <<request, responses, calls, result>>

vars == <<pc, targetVars, apiVars, files>>

(***************************************************************************)
(* cf_helpers.py                                                           *)
(***************************************************************************)

\* _raw_input_default(message, default_value) where raw_input returns
\* input_value.
_raw_input_default(default_value, input_value) ==
    IF input_value # "" THEN input_value ELSE default_value

\* The fields for which _extract_new_target calls _raw_input_default.
PromptedKeys(arg_provided) == {k \in TargetKeys : arg_provided[k] = ""}

\* A plausible slip: the prompt result is used even when an override exists.
_extract_new_target_IgnoreOverride(current, arg_provided, inputs, getpass_value) ==
    LET looped == [k \in TargetKeys |->
                     _raw_input_default(current[k], inputs[k])]
    IN  IF arg_provided[PASSWORD_KEY] = ""
        THEN [looped EXCEPT ![PASSWORD_KEY] = getpass_value]
        ELSE looped

\* _extract_new_target(current_target, arg_provided_target); inputs[k] is
\* what raw_input returns for field k, getpass_value what unix_getpass
\* returns.
_extract_new_target(current, arg_provided, inputs, getpass_value) ==
    LET looped == [k \in TargetKeys |->
                     IF arg_provided[k] # "" THEN arg_provided[k]
                     ELSE _raw_input_default(current[k], inputs[k])]
    IN  IF arg_provided[PASSWORD_KEY] = ""
        THEN [looped EXCEPT ![PASSWORD_KEY] = getpass_value]
        ELSE looped

\* A plausible slip: a supplied password is not taken as a reason to log in.
_is_login_required_NoPasswordCheck(new, current) ==
    \E key \in get_login_keys : new[key] # current[key]

\* _is_login_required(new_target, current_target)
_is_login_required(new, current) ==
    IF new[PASSWORD_KEY] # "" THEN TRUE
    ELSE \E key \in get_login_keys : new[key] # current[key]

\* A plausible slip: dropping the early return on login_required.
_is_target_required_NoLoginShortcut(login, new, current) ==
    \E key \in get_org_space_keys : new[key] # current[key]

\* A plausible slip: only the org is compared, the space is forgotten.
_is_target_required_OrgOnly(login, new, current) ==
    IF login THEN TRUE ELSE new[ORG_KEY] # current[ORG_KEY]

\* _is_target_required(login_required, new_target, current_target)
_is_target_required(login, new, current) ==
    IF login THEN TRUE
    ELSE \E key \in get_org_space_keys : new[key] # current[key]

\* Answers raw_input can give for field k: one of Values when the prompt is
\* shown, none when the override makes the prompt unnecessary.
Answers(arg_provided, k) ==
    IF k \in PromptedKeys(arg_provided) THEN Values ELSE {""}

\* get_info(args)
get_info ==
    /\ pc = "start"
    /\ \E a1 \in Answers(arg_provided_target, API_URL_KEY),
          a2 \in Answers(arg_provided_target, USER_KEY),
          a3 \in Answers(arg_provided_target, PASSWORD_KEY),
          a4 \in Answers(arg_provided_target, ORG_KEY),
          a5 \in Answers(arg_provided_target, SPACE_KEY),
          pw \in Answers(arg_provided_target, PASSWORD_KEY) :
        LET inputs == [k \in TargetKeys |->
                         CASE k = API_URL_KEY -> a1
                           [] k = USER_KEY -> a2
                           [] k = PASSWORD_KEY -> a3
                           [] k = ORG_KEY -> a4
                           [] OTHER -> a5]
            nt == _extract_new_target(current_target, arg_provided_target,
                                      inputs, pw)
            lr == _is_login_required(nt, current_target)
        IN  /\ new_target' = nt
            /\ login_required' = lr
            /\ target_required' = _is_target_required(lr, nt, current_target)
    /\ raw_inputs' = PromptedKeys(arg_provided_target)
    /\ getpass_calls' = IF arg_provided_target[PASSWORD_KEY] = "" THEN 1 ELSE 0
    /\ pc' = "done"
    /\ UNCHANGED <<current_target, arg_provided_target>>
    /\ UNCHANGED <<apiVars, files>>

Init ==
    /\ pc = "start"
    /\ current_target \in CurrentTargets
    /\ arg_provided_target \in ArgTargets
    /\ new_target = get_empty
    /\ login_required = FALSE
    /\ target_required = FALSE
    /\ raw_inputs = {}
    /\ getpass_calls = 0
    /\ request = NoRequest
    /\ responses = <<>>
    /\ calls = <<>>
    /\ result = NoResult
    /\ files = <<>>

Next == get_info

Spec == Init /\ [][Next]_vars

(***************************************************************************)
(* Properties of get_info                                                  *)
(***************************************************************************)

\* C1: in every decision returned by get_info, login_required = true
\* implies target_required = true.
C1_LoginImpliesTarget ==
    pc = "done" => (login_required => target_required)

\* get_info returned login_required although org and space are those of
\* the current target.
C1_Witness ==
    /\ pc = "done"
    /\ login_required
    /\ \A k \in get_org_space_keys : new_target[k] = current_target[k]

\* C2: a non-empty resolved password yields login_required and
\* target_required, whatever the other fields are.
C2_PasswordForcesLogin ==
    (pc = "done" /\ new_target[PASSWORD_KEY] # "")
        => (login_required /\ target_required)

\* A password was given and every other field equals the current target.
C2_Witness ==
    /\ pc = "done"
    /\ new_target[PASSWORD_KEY] # ""
    /\ \A k \in TargetKeys \ {PASSWORD_KEY} : new_target[k] = current_target[k]
    /\ current_target[API_URL_KEY] # ""
    /\ login_required

AllOverridesSupplied == \A k \in TargetKeys : arg_provided_target[k] # ""

\* C3: with a non-empty override for every field the effective target is
\* the overrides, field for field, and neither raw_input nor getpass runs.
C3_AllOverridesNoPrompt ==
    (pc = "done" /\ AllOverridesSupplied)
        => /\ new_target = arg_provided_target
           /\ raw_inputs = {}
           /\ getpass_calls = 0

\* Every override was supplied and differs from a non-empty current field.
C3_Witness ==
    /\ pc = "done"
    /\ AllOverridesSupplied
    /\ \A k \in TargetKeys \ {PASSWORD_KEY} :
          current_target[k] # "" /\ current_target[k] # arg_provided_target[k]
    /\ new_target = arg_provided_target

LoginKeysMatch ==
    /\ new_target[PASSWORD_KEY] = ""
    /\ new_target[API_URL_KEY] = current_target[API_URL_KEY]
    /\ new_target[USER_KEY] = current_target[USER_KEY]

OrgSpaceMatch ==
    /\ new_target[ORG_KEY] = current_target[ORG_KEY]
    /\ new_target[SPACE_KEY] = current_target[SPACE_KEY]

\* C4: with an empty password and api_url and user equal to the current
\* target, login_required is false, and target_required is false when org
\* and space match the current target and true when one of them differs.
C4_NoLoginWhenLoginKeysMatch ==
    (pc = "done" /\ LoginKeysMatch)
        => /\ ~login_required
           /\ (OrgSpaceMatch => ~target_required)
           /\ (~OrgSpaceMatch => target_required)

\* Login keys match, the org matches and only the space differs.
C4_Witness ==
    /\ pc = "done"
    /\ LoginKeysMatch
    /\ current_target[API_URL_KEY] # ""
    /\ new_target[ORG_KEY] = current_target[ORG_KEY]
    /\ new_target[SPACE_KEY] # current_target[SPACE_KEY]
    /\ target_required /\ ~login_required

NoActiveSession == current_target = get_empty

\* C5 as stated: with no active session (every field of the current target
\* empty) get_info yields login_required and target_required for every
\* combination of overrides and prompt answers.
C5_EmptyCurrentForcesBoth ==
    (pc = "done" /\ NoActiveSession) => (login_required /\ target_required)

\* C5 amended: with no active session, login_required holds exactly when
\* the resolved api_url, user or password is non-empty, and target_required
\* exactly when some resolved field is non-empty.
C5_EmptyCurrentAmended ==
    (pc = "done" /\ NoActiveSession)
        => /\ login_required <=>
                \E k \in {API_URL_KEY, USER_KEY, PASSWORD_KEY} :
                    new_target[k] # ""
           /\ target_required <=> \E k \in TargetKeys : new_target[k] # ""

\* No active session and only a password was entered.
C5_Witness ==
    /\ pc = "done"
    /\ NoActiveSession
    /\ new_target[PASSWORD_KEY] # ""
    /\ \A k \in TargetKeys \ {PASSWORD_KEY} : new_target[k] = ""
    /\ login_required /\ target_required

(***************************************************************************)
(* cf_api.py: the "cf curl" client                                         *)
(***************************************************************************)

\* Longest '/v2/service_instances' listing the server answers with.
MaxResources == 2

Guids == {"g1", "g2", "g3"}
InstanceNames == {"svc-a", "svc-b"}
KeyNames == {"DummyKey123"}
AppGuids == {"app1"}

\* One resource descriptor of a listing.
Resource(name, guid) ==
    [metadata |-> [guid |-> guid], entity |-> [name |-> name]]

\* The 'resources' lists: up to MaxResources descriptors, guids unique.
ResourceLists ==
    UNION {{l \in [1..n -> {Resource(nm, g) : nm \in InstanceNames, g \in Guids}] :
              \A i, j \in 1..n : i # j => l[i].metadata.guid # l[j].metadata.guid}
           : n \in 0..MaxResources}

\* Decoded JSON documents "cf curl" can print.  A document is a function
\* from the keys it carries to their values.
ErrorBodies ==
    {[error_code |-> "CF-X", description |-> "failed"]}
    \cup {[error_code |-> "CF-X", metadata |-> [guid |-> g]] : g \in {"g1"}}

ListingBodies == {[resources |-> l] : l \in ResourceLists}

KeyBodies ==
    {[metadata |-> [guid |-> g], entity |-> [credentials |-> "cred"]] :
        g \in Guids}
    \cup {[entity |-> [credentials |-> "cred"]]}

Bodies == ErrorBodies \cup ListingBodies \cup KeyBodies

\* What one run of "cf curl" can produce: a non-zero exit, or exit 0 with an
\* output that is empty or the text of one JSON document.
Responses ==
    {[exit |-> 1, out |-> <<>>], [exit |-> 0, out |-> <<>>]}
    \cup {[exit |-> 0, out |-> <<b>>] : b \in Bodies}

\* Placeholder for the answer to a call that is never issued.
Unused == [exit |-> 1, out |-> <<>>]

\* The answer to the i-th call of a function whose calls are answered by
\* rs, in order; a call past the end of rs finds the command failing.
At(rs, i) == IF i <= Len(rs) THEN rs[i] ELSE Unused

\* The answers left after the first n.
Drop(rs, n) == IF n >= Len(rs) THEN <<>> ELSE SubSeq(rs, n + 1, Len(rs))

Call(method, path, data) == [method |-> method, path |-> path, data |-> data]

Raise(error, issued) == [status |-> error, value |-> <<>>, calls |-> issued]

Return(value, issued) == [status |-> "ok", value |-> <<value>>, calls |-> issued]

\* cf_cli.get_command_output(command): the output of the command, or
\* CommandFailedError when the command exits with a non-zero status.
get_command_output(call, r) ==
    IF r.exit # 0 THEN Raise("CommandFailedError", <<call>>)
    ELSE Return(r.out, <<call>>)

\* The calls of outcome, preceded by the calls issued before it.
Chain(issued, outcome) == [outcome EXCEPT !.calls = issued \o @]

\* A plausible slip: the decoded body is returned without the test for
\* 'error_code'.
DecodeChecked_NoErrorCodeTest(cmd) ==
    IF cmd.status # "ok" THEN cmd
    ELSE IF Len(cmd.value[1]) = 0 THEN Raise("ValueError", cmd.calls)
    ELSE Return(cmd.value[1][1], cmd.calls)

\* json.loads(cmd_output) and the 'error_code' test on the decoded body,
\* given what get_command_output did.
DecodeChecked(cmd) ==
    IF cmd.status # "ok" THEN cmd
    ELSE IF Len(cmd.value[1]) = 0 THEN Raise("ValueError", cmd.calls)
    ELSE IF "error_code" \notin DOMAIN cmd.value[1][1]
         THEN Return(cmd.value[1][1], cmd.calls)
         ELSE Raise("CommandFailedError", cmd.calls)

\* The command, the decoding and the test that cf_curl_get,
\* create_service_key and create_service_binding share.
CheckedJson(call, r) == DecodeChecked(get_command_output(call, r))

\* cf_curl_get(path)
cf_curl_get(path, r) == CheckedJson(Call("GET", path, <<>>), r)

\* create_service_key(service_guid, key_name)
create_service_key(service_guid, key_name, r) ==
    CheckedJson(Call("POST", "/v2/service_keys",
                     <<[service_instance_guid |-> service_guid,
                        name |-> key_name]>>), r)

\* create_service_binding(service_guid, app_guid)
create_service_binding(service_guid, app_guid, r) ==
    CheckedJson(Call("POST", "/v2/service_bindings",
                     <<[service_instance_guid |-> service_guid,
                        app_guid |-> app_guid]>>), r)

\* The end of a function that returns nothing.
ReturnNone(issued) == [status |-> "ok", value |-> <<>>, calls |-> issued]

\* delete_particular_service_key: the output of the command is discarded.
Discard(cmd) == IF cmd.status # "ok" THEN cmd ELSE ReturnNone(cmd.calls)

\* delete_service_binding: any output of the command is a failure.
RequireEmpty(cmd) ==
    IF cmd.status # "ok" THEN cmd
    ELSE IF Len(cmd.value[1]) # 0 THEN Raise("CommandFailedError", cmd.calls)
    ELSE ReturnNone(cmd.calls)

\* delete_particular_service_key(key_guid)
delete_particular_service_key(key_guid, r) ==
    Discard(get_command_output(
                Call("DELETE", "/v2/service_keys/" \o key_guid, <<"">>), r))

\* delete_service_binding(binding)
delete_service_binding(binding, r) ==
    RequireEmpty(get_command_output(
                     Call("DELETE", binding.metadata.url, <<>>), r))

\* get_all_service_instances()
get_all_service_instances(r) == cf_curl_get("/v2/service_instances", r)

\* The positions of the resources that have the name.
Hits(resources, instance_name) ==
    {i \in 1..Len(resources) : resources[i].entity.name = instance_name}

Min(S) == CHOOSE m \in S : \A x \in S : m <= x
Max(S) == CHOOSE m \in S : \A x \in S : m >= x

\* A plausible slip: the loop keeps going and the last match wins.
FindGuid_LastMatch(instance_name, instances) ==
    IF instances.status # "ok" THEN instances
    ELSE IF "resources" \notin DOMAIN instances.value[1]
         THEN Raise("KeyError", instances.calls)
    ELSE IF Hits(instances.value[1].resources, instance_name) # {}
         THEN Return(instances.value[1].resources[
                         Max(Hits(instances.value[1].resources,
                                  instance_name))].metadata.guid,
                     instances.calls)
         ELSE Raise("CommandFailedError", instances.calls)

\* The loop of get_service_instance_guid over the listing it was given.
FindGuid(instance_name, instances) ==
    IF instances.status # "ok" THEN instances
    ELSE IF "resources" \notin DOMAIN instances.value[1]
         THEN Raise("KeyError", instances.calls)
    ELSE IF Hits(instances.value[1].resources, instance_name) # {}
         THEN Return(instances.value[1].resources[
                         Min(Hits(instances.value[1].resources,
                                  instance_name))].metadata.guid,
                     instances.calls)
         ELSE Raise("CommandFailedError", instances.calls)

\* get_service_instance_guid(instance_name)
get_service_instance_guid(instance_name, r) ==
    FindGuid(instance_name, get_all_service_instances(r))

\* The guid of the key a create response describes, <<>> when the response
\* has no metadata.guid (the subscript raises KeyError).
KeyGuidOf(service_key_data) ==
    IF "metadata" \in DOMAIN service_key_data
       /\ "guid" \in DOMAIN service_key_data.metadata
    THEN <<service_key_data.metadata.guid>>
    ELSE <<>>

\* create_service_key for the guid the lookup produced.
CreateFor(key_name, rs, lookup) ==
    IF lookup.status # "ok" THEN lookup
    ELSE Chain(lookup.calls,
               create_service_key(lookup.value[1], key_name, At(rs, 2)))

\* Lines 66-67 of get_temporary_key_data: the guid lookup and the create.
KeyCreation(instance_name, key_name, rs) ==
    CreateFor(key_name, rs, get_service_instance_guid(instance_name, At(rs, 1)))

\* The return of get_temporary_key_data once the delete has run.
ReturnKeyData(created, deleted) ==
    IF deleted.status # "ok" THEN Chain(created.calls, deleted)
    ELSE Return(created.value[1], created.calls \o deleted.calls)

\* Lines 68-69 of get_temporary_key_data: the delete and the return.
DeleteCreated(rs, created) ==
    IF created.status # "ok" THEN created
    ELSE IF KeyGuidOf(created.value[1]) = <<>>
         THEN Raise("KeyError", created.calls)
    ELSE ReturnKeyData(created,
                       delete_particular_service_key(
                           KeyGuidOf(created.value[1])[1], At(rs, 3)))

\* A plausible slip: the key is returned and never deleted.
get_temporary_key_data_NoDelete(instance_name, key_name, rs) ==
    KeyCreation(instance_name, key_name, rs)

\* get_temporary_key_data(instance_name, key_name='DummyKey123'); rs are the
\* answers to its cf curl calls, in the order the calls are issued.
get_temporary_key_data(instance_name, key_name, rs) ==
    DeleteCreated(rs, KeyCreation(instance_name, key_name, rs))

\* The service bindings a caller can hand to delete_service_binding.
Bindings ==
    {[metadata |-> [url |-> u, guid |-> "b1"],
      entity |-> [app_guid |-> "app1"]] :
        u \in {"/v2/service_bindings/b1", "/v2/service_bindings/b2"}}

\* The answers a call gets: any response while the function is still
\* running, none once it has raised.
AnswersAfter(outcome) == IF outcome.status = "ok" THEN Responses ELSE {Unused}

\* The script calls one cf_api function; the function runs to its end.
Finish(req, rs, outcome) ==
    /\ request' = req
    /\ responses' = SubSeq(rs, 1, Len(outcome.calls))
    /\ calls' = outcome.calls
    /\ result' = [status |-> outcome.status, value |-> outcome.value]
    /\ pc' = "done"
    /\ UNCHANGED <<targetVars, files>>

CfCurlGet ==
    /\ pc = "start"
    /\ \E path \in {"/v2/service_instances", "/v2/apps/app1"}, r \in Responses :
         Finish([op |-> "cf_curl_get", path |-> path], <<r>>,
                cf_curl_get(path, r))

CreateServiceKey ==
    /\ pc = "start"
    /\ \E g \in Guids, k \in KeyNames, r \in Responses :
         Finish([op |-> "create_service_key", service_guid |-> g, key_name |-> k],
                <<r>>, create_service_key(g, k, r))

CreateServiceBinding ==
    /\ pc = "start"
    /\ \E g \in Guids, a \in AppGuids, r \in Responses :
         Finish([op |-> "create_service_binding", service_guid |-> g,
                 app_guid |-> a],
                <<r>>, create_service_binding(g, a, r))

DeleteParticularServiceKey ==
    /\ pc = "start"
    /\ \E g \in Guids, r \in Responses :
         Finish([op |-> "delete_particular_service_key", key_guid |-> g],
                <<r>>, delete_particular_service_key(g, r))

DeleteServiceBinding ==
    /\ pc = "start"
    /\ \E b \in Bindings, r \in Responses :
         Finish([op |-> "delete_service_binding", binding |-> b],
                <<r>>, delete_service_binding(b, r))

GetServiceInstanceGuid ==
    /\ pc = "start"
    /\ \E n \in InstanceNames, r \in Responses :
         Finish([op |-> "get_service_instance_guid", instance_name |-> n],
                <<r>>, get_service_instance_guid(n, r))

GetTemporaryKeyData ==
    /\ pc = "start"
    /\ \E n \in InstanceNames, k \in KeyNames, r1 \in Responses :
       \E r2 \in AnswersAfter(get_service_instance_guid(n, r1)) :
       \E r3 \in AnswersAfter(KeyCreation(n, k, <<r1, r2>>)) :
         Finish([op |-> "get_temporary_key_data", instance_name |-> n,
                 key_name |-> k],
                <<r1, r2, r3>>, get_temporary_key_data(n, k, <<r1, r2, r3>>))

InitApi ==
    /\ pc = "start"
    /\ current_target = get_empty
    /\ arg_provided_target = get_empty
    /\ new_target = get_empty
    /\ login_required = FALSE
    /\ target_required = FALSE
    /\ raw_inputs = {}
    /\ getpass_calls = 0
    /\ request = NoRequest
    /\ responses = <<>>
    /\ calls = <<>>
    /\ result = NoResult
    /\ files = <<>>

NextApi ==
    \/ CfCurlGet
    \/ CreateServiceKey
    \/ CreateServiceBinding
    \/ DeleteParticularServiceKey
    \/ DeleteServiceBinding
    \/ GetServiceInstanceGuid
    \/ GetTemporaryKeyData

SpecApi == InitApi /\ [][NextApi]_vars

(***************************************************************************)
(* Properties of the cf curl client                                        *)
(***************************************************************************)

CheckedOps == {"cf_curl_get", "create_service_key", "create_service_binding"}

DeleteOps == {"delete_service_binding", "delete_particular_service_key"}

\* The call got an answer that decodes to a JSON document.
AnsweredWithJson(i) ==
    /\ Len(responses) >= i
    /\ responses[i].exit = 0
    /\ Len(responses[i].out) = 1

\* C6: cf_curl_get, create_service_key and create_service_binding raise
\* CommandFailedError when the decoded body carries 'error_code', return
\* the decoded body unchanged otherwise, and never return a body that
\* carries 'error_code'.
C6_ErrorCodeRaises ==
    (pc = "done" /\ request.op \in CheckedOps)
        => /\ AnsweredWithJson(1) =>
                LET body == responses[1].out[1]
                IN  IF "error_code" \in DOMAIN body
                    THEN result.status = "CommandFailedError"
                         /\ result.value = <<>>
                    ELSE result.status = "ok" /\ result.value = <<body>>
           /\ result.status = "ok" =>
                /\ Len(result.value) = 1
                /\ "error_code" \notin DOMAIN result.value[1]

\* A create call was answered with a document that has both 'error_code'
\* and 'metadata', and it raised.
C6_Witness ==
    /\ pc = "done"
    /\ request.op = "create_service_key"
    /\ AnsweredWithJson(1)
    /\ {"error_code", "metadata"} \subseteq DOMAIN responses[1].out[1]
    /\ result.status = "CommandFailedError"

\* C7: delete_service_binding and delete_particular_service_key fail
\* whenever the DELETE response body is non-empty and return normally only
\* when it is empty.
C7_DeleteFailsOnBody ==
    (pc = "done" /\ request.op \in DeleteOps /\ responses[1].exit = 0)
        => (result.status = "ok" <=> Len(responses[1].out) = 0)

\* The index of the first resource of a list that has the name, 0 if none.
FirstMatch(resources, name) ==
    LET hits == {i \in 1..Len(resources) : resources[i].entity.name = name}
    IN  IF hits = {} THEN 0
        ELSE CHOOSE i \in hits : \A j \in hits : i <= j

\* C8: get_service_instance_guid(name) returns the guid of the first
\* resource of the listing whose entity.name is name, raises when no
\* resource has that name, and never returns the guid of a resource with
\* another name.
C8_GuidOfFirstMatch ==
    (pc = "done" /\ request.op = "get_service_instance_guid")
        => /\ (AnsweredWithJson(1)
                 /\ "resources" \in DOMAIN responses[1].out[1]) =>
                LET resources == responses[1].out[1].resources
                    first == FirstMatch(resources, request.instance_name)
                IN  IF first = 0
                    THEN result.status = "CommandFailedError"
                    ELSE /\ result.status = "ok"
                         /\ result.value = <<resources[first].metadata.guid>>
                         /\ \A j \in 1..Len(resources) :
                              resources[j].metadata.guid = result.value[1]
                                => resources[j].entity.name
                                     = request.instance_name
           /\ result.status = "ok" =>
                /\ AnsweredWithJson(1)
                /\ "resources" \in DOMAIN responses[1].out[1]
                /\ FirstMatch(responses[1].out[1].resources,
                              request.instance_name) # 0

\* The listing has two resources with the requested name and the guid of
\* the first was returned.
C8_Witness ==
    /\ pc = "done"
    /\ request.op = "get_service_instance_guid"
    /\ result.status = "ok"
    /\ LET resources == responses[1].out[1].resources
       IN  /\ Len(resources) >= 2
           /\ resources[1].entity.name = request.instance_name
           /\ resources[2].entity.name = request.instance_name
           /\ result.value = <<resources[1].metadata.guid>>

\* The create call of get_temporary_key_data succeeded: its answer is a
\* document without 'error_code'.
CreateSucceeded ==
    /\ AnsweredWithJson(2)
    /\ "error_code" \notin DOMAIN responses[2].out[1]

\* C9: get_temporary_key_data issues the guid lookup, then one service-key
\* POST for that guid, then one DELETE addressed to the guid of the key the
\* POST created; it returns the create response only after the DELETE, and
\* issues no DELETE when the lookup or the create fails.
C9_CreateThenDelete ==
    (pc = "done" /\ request.op = "get_temporary_key_data")
        => /\ Len(calls) \in 1..3
           /\ calls[1] = Call("GET", "/v2/service_instances", <<>>)
           /\ Len(calls) >= 2 =>
                /\ AnsweredWithJson(1)
                /\ "resources" \in DOMAIN responses[1].out[1]
                /\ LET resources == responses[1].out[1].resources
                       first == FirstMatch(resources, request.instance_name)
                   IN  /\ first # 0
                       /\ calls[2] =
                            Call("POST", "/v2/service_keys",
                                 <<[service_instance_guid |->
                                        resources[first].metadata.guid,
                                    name |-> request.key_name]>>)
           /\ Len(calls) = 3 =>
                /\ CreateSucceeded
                /\ calls[3] =
                     Call("DELETE",
                          "/v2/service_keys/"
                              \o responses[2].out[1].metadata.guid,
                          <<"">>)
           /\ \A i \in 1..Len(calls) : calls[i].method = "DELETE" => i = 3
           /\ result.status = "ok" =>
                /\ Len(calls) = 3
                /\ result.value = <<responses[2].out[1]>>

\* get_temporary_key_data returned the key data after its three calls.
C9_Witness ==
    /\ pc = "done"
    /\ request.op = "get_temporary_key_data"
    /\ result.status = "ok"
    /\ Len(calls) = 3
    /\ calls[3].method = "DELETE"

(***************************************************************************)
(* gearpump_helpers.py                                                     *)
(***************************************************************************)

GEARPUMP_COOKIE_NAME == "gpcookie"
REQUEST_BODY_FILE == "request_body"

\* Most service instances a script binds in one submission.
MaxInstances == 2

\* cf curl calls get_service_instance_data issues for one instance.
CallsPerInstance == 7

Labels == {"L1", "L2"}

Has(dict, key) == key \in DOMAIN dict

\* cf_curl_get of the instance whose guid the lookup produced.
GetByGuid(rs, lookup) ==
    IF lookup.status # "ok" THEN lookup
    ELSE Chain(lookup.calls,
               cf_curl_get("/v2/service_instances/" \o lookup.value[1],
                           At(rs, 2)))

\* get_service_instance(instance_name); the first answer of rs is for the
\* listing, the second for the GET of the instance.
get_service_instance(instance_name, rs) ==
    GetByGuid(rs, get_service_instance_guid(instance_name, At(rs, 1)))

\* A subscript of a key the document lacks raises KeyError.
KeyError(issued) == Raise("KeyError", issued)

\* get_service_instance_data, line 76 ['entity']['credentials'] and 77.
WithKey(instance_data_for_req, key) ==
    IF key.status # "ok" THEN key
    ELSE IF \/ ~Has(key.value[1], "entity")
            \/ ~Has(key.value[1].entity, "credentials")
         THEN KeyError(key.calls)
    ELSE Return([properties |-> instance_data_for_req,
                 credentials |-> key.value[1].entity.credentials],
                key.calls)

\* get_service_instance_data, lines 72 ['entity'] to 76, given the answer
\* to the GET of the service.
WithService(instance_name, rs, instance_data, service_plan_data, svc) ==
    IF svc.status # "ok" THEN svc
    ELSE IF ~Has(svc.value[1], "entity") THEN KeyError(svc.calls)
    ELSE IF \/ ~Has(service_plan_data, "name")
            \/ ~Has(instance_data, "tags")
            \/ ~Has(svc.value[1].entity, "label")
         THEN KeyError(svc.calls)
    ELSE WithKey([plan |-> service_plan_data.name,
                  tags |-> instance_data.tags,
                  label |-> svc.value[1].entity.label],
                 Chain(svc.calls,
                       get_temporary_key_data(instance_name, "DummyKey123",
                                              Drop(rs, 4))))

\* get_service_instance_data, lines 70 ['entity'] to 72, given the answer
\* to the GET of the service plan.
WithPlan(instance_name, rs, instance_data, plan) ==
    IF plan.status # "ok" THEN plan
    ELSE IF \/ ~Has(plan.value[1], "entity")
            \/ ~Has(plan.value[1].entity, "service_url")
         THEN KeyError(plan.calls)
    ELSE WithService(instance_name, rs, instance_data, plan.value[1].entity,
                     Chain(plan.calls,
                           cf_curl_get(plan.value[1].entity.service_url,
                                       At(rs, 4))))

\* get_service_instance_data, lines 69 ['entity'] to 70, given what
\* get_service_instance did.
WithInstance(instance_name, rs, inst) ==
    IF inst.status # "ok" THEN inst
    ELSE IF \/ ~Has(inst.value[1], "entity")
            \/ ~Has(inst.value[1].entity, "service_plan_url")
         THEN KeyError(inst.calls)
    ELSE WithPlan(instance_name, rs, inst.value[1].entity,
                  Chain(inst.calls,
                        cf_curl_get(inst.value[1].entity.service_plan_url,
                                    At(rs, 3))))

\* get_service_instance_data(instance_name); rs answers its seven calls.
get_service_instance_data(instance_name, rs) ==
    WithInstance(instance_name, rs, get_service_instance(instance_name, rs))

\* _add_user_args_section(body_data_json, users_args)
_add_user_args_section(body_data_json, users_args) ==
    [k \in DOMAIN body_data_json \cup {"usersArgs"} |->
        IF k = "usersArgs" THEN users_args ELSE body_data_json[k]]

\* A scalar after json.dumps and yaml.safe_load: a float whose repr has an
\* exponent and no '.' (1e+22) is not a YAML 1.1 float and comes back as a
\* string; strings and other floats come back as they were.
YamlScalar(v) ==
    IF v.type = "float" /\ ~v.dot
    THEN [type |-> "str", repr |-> v.repr, dot |-> FALSE]
    ELSE v

\* _encode_json_to_utf8(json_input): the service entries hold strings and
\* lists of strings only; the user arguments hold scalars.
_encode_json_to_utf8(json_input) ==
    [k \in DOMAIN json_input |->
        IF k = "usersArgs"
        THEN [a \in DOMAIN json_input[k] |-> YamlScalar(json_input[k][a])]
        ELSE json_input[k]]

\* json_data[label] = instance_body
Store(json_data, label, instance_body) ==
    [k \in DOMAIN json_data \cup {label} |->
        IF k = label THEN instance_body ELSE json_data[k]]

\* instance_body of prepare_deploy_req_data
InstanceBody(instance, data) ==
    <<[label |-> data.properties.label,
       name |-> instance,
       plan |-> data.properties.plan,
       tags |-> data.properties.tags,
       credentials |-> data.credentials]>>

RECURSIVE Assemble(_, _, _, _, _, _)
\* One turn of the loop of prepare_deploy_req_data, given what
\* get_service_instance_data did for the i-th instance.
AssembleStep(service_instances, users_args, rs, i, json_data, data) ==
    IF data.status # "ok" THEN data
    ELSE Assemble(service_instances, users_args, rs, i + 1,
                  Store(json_data, data.value[1].properties.label,
                        InstanceBody(service_instances[i], data.value[1])),
                  data.calls)

\* The loop of prepare_deploy_req_data from its i-th instance on.
Assemble(service_instances, users_args, rs, i, json_data, issued) ==
    IF i > Len(service_instances)
    THEN Return(_encode_json_to_utf8(
                    _add_user_args_section(json_data, users_args)), issued)
    ELSE AssembleStep(service_instances, users_args, rs, i, json_data,
                      Chain(issued,
                            get_service_instance_data(
                                service_instances[i],
                                Drop(rs, Len(issued)))))

\* prepare_deploy_req_data(service_instances, users_args)
prepare_deploy_req_data(service_instances, users_args, rs) ==
    Assemble(service_instances, users_args, rs, 1, <<>>, <<>>)

\* What an HTTP POST to Gearpump can do: raise, or answer with a text.
ConnectionError == [raised |-> TRUE, text |-> ""]
HttpResponses ==
    {ConnectionError} \cup
    {[raised |-> FALSE, text |-> t] : t \in {"submitted", "unauthorized"}}

Ended(status, value, issued, disk) ==
    [status |-> status, value |-> value, calls |-> issued, files |-> disk]

\* The objects a caller can hand to save_to_file: one pickle can serialise
\* (the cookies of a response) and one it cannot (a lambda).
Objects == {"cookies", "lambda"}

Picklable(data) == data # "lambda"

\* What a file can hold: the pickle of an object (written as the object), a
\* jar, the text of a request body, or nothing.
Pickles == {data \in Objects : Picklable(data)}

\* open(filename, 'w') followed by a write of the content.
Write(disk, filename, content) ==
    [n \in DOMAIN disk \cup {filename} |->
        IF n = filename THEN content ELSE disk[n]]

\* os.remove(filename) of a file that exists.
Remove(disk, filename) == [n \in DOMAIN disk \ {filename} |-> disk[n]]

\* save_to_file(data, filename): open truncates or creates the file;
\* pickle.dump raises PicklingError for data it cannot serialise and the
\* file stays empty.
save_to_file(disk, data, filename) ==
    IF Picklable(data)
    THEN Ended("ok", <<>>, <<>>, Write(disk, filename, data))
    ELSE Ended("PicklingError", <<>>, <<>>, Write(disk, filename, "empty"))

\* What pickle.load raises on a file that holds no pickle (Python 2.7): on
\* a jar, on an empty file and on the text of a request body.
UnpicklingError(content) ==
    IF content = "jar" THEN "AttributeError"
    ELSE IF content = "empty" THEN "EOFError"
    ELSE "IndexError"

\* load_file(filename): the object pickled in the file, the IOError of
\* open, or the error of pickle.load.
load_file(disk, filename) ==
    IF filename \notin DOMAIN disk THEN Ended("IOError", <<>>, <<>>, disk)
    ELSE IF disk[filename] \in Pickles
         THEN Ended("ok", <<disk[filename]>>, <<>>, disk)
    ELSE Ended(UnpicklingError(disk[filename]), <<>>, <<>>, disk)

\* delete_file(filename): os.remove, which raises OSError for a missing file.
delete_file(disk, filename) ==
    IF filename \in DOMAIN disk
    THEN Ended("ok", <<>>, <<>>, Remove(disk, filename))
    ELSE Ended("OSError", <<>>, <<>>, disk)

\* gearpump_login(gearpump_url, username, password) with the files on disk
\* and the outcome of the POST.
gearpump_login(disk, http) ==
    IF http.raised THEN Ended("ConnectionError", <<>>, <<>>, disk)
    ELSE Ended("ok", <<http.text>>, <<>>,
               save_to_file(disk, "cookies", GEARPUMP_COOKIE_NAME).files)

\* deploy_to_gearpump from line 152 on: the jar and the request body are
\* opened, the cookie is loaded, the request is posted and the two files
\* are deleted.
Post(disk, local_file_path, http, issued) ==
    IF local_file_path \notin DOMAIN disk
    THEN Ended("IOError", <<>>, issued, disk)
    ELSE IF load_file(disk, GEARPUMP_COOKIE_NAME).status # "ok"
         THEN Ended(load_file(disk, GEARPUMP_COOKIE_NAME).status, <<>>,
                    issued, disk)
    ELSE IF http.raised THEN Ended("ConnectionError", <<>>, issued, disk)
    ELSE Ended("ok", <<http.text>>, issued,
               delete_file(delete_file(disk, GEARPUMP_COOKIE_NAME).files,
                           REQUEST_BODY_FILE).files)

\* deploy_to_gearpump(gearpump_url, local_file_path, users_args,
\* bound_instances) with the files on disk, what prepare_deploy_req_data
\* did for the instances and the arguments (line 147), and the outcome of
\* the POST.
deploy_to_gearpump(disk, local_file_path, deploy_request_data, http) ==
    IF deploy_request_data.status # "ok"
    THEN Ended(deploy_request_data.status, <<>>, deploy_request_data.calls,
               disk)
    ELSE Post(Write(disk, REQUEST_BODY_FILE, "text"), local_file_path, http,
              deploy_request_data.calls)

(***************************************************************************)
(* The Cloud Foundry the submission talks to                               *)
(***************************************************************************)

GuidOf(name) == IF name = "svc-a" THEN "g1" ELSE "g2"

\* A platform: the instances that exist and the label of the service each
\* one is an instance of.
Worlds ==
    [present : {{"svc-a", "svc-b"}, {"svc-a"}},
     label : [InstanceNames -> Labels]]

\* The listing of a platform, in name order.
ListingOf(world) ==
    IF "svc-b" \in world.present
    THEN <<Resource("svc-a", "g1"), Resource("svc-b", "g2")>>
    ELSE <<Resource("svc-a", "g1")>>

NotFound == [exit |-> 0, out |-> <<[error_code |-> "CF-NotFound",
                                    description |-> "not found"]>>]

Json(body) == [exit |-> 0, out |-> <<body>>]

\* The platform's answer to one cf curl call.
Serve(world, call) ==
    IF call.method = "DELETE" THEN [exit |-> 0, out |-> <<>>]
    ELSE IF call.method = "POST" THEN
        IF call.path = "/v2/service_keys"
           /\ \E n \in world.present :
                 GuidOf(n) = call.data[1].service_instance_guid
        THEN Json([metadata |->
                      [guid |-> "k-" \o call.data[1].service_instance_guid],
                   entity |->
                      [credentials |->
                          "cred-" \o call.data[1].service_instance_guid]])
        ELSE NotFound
    ELSE IF call.path = "/v2/service_instances"
         THEN Json([resources |-> ListingOf(world)])
    ELSE IF \E n \in world.present :
               call.path = "/v2/service_instances/" \o GuidOf(n)
         THEN LET n == CHOOSE m \in world.present :
                         call.path = "/v2/service_instances/" \o GuidOf(m)
              IN  Json([metadata |-> [guid |-> GuidOf(n)],
                        entity |-> [name |-> n,
                                    service_plan_url |->
                                        "/v2/service_plans/p-" \o GuidOf(n),
                                    tags |-> <<"tag-" \o n>>]])
    ELSE IF \E n \in world.present :
               call.path = "/v2/service_plans/p-" \o GuidOf(n)
         THEN LET n == CHOOSE m \in world.present :
                         call.path = "/v2/service_plans/p-" \o GuidOf(m)
              IN  Json([metadata |-> [guid |-> "p-" \o GuidOf(n)],
                        entity |-> [name |-> "plan-" \o n,
                                    service_url |->
                                        "/v2/services/" \o world.label[n]]])
    ELSE IF \E l \in Labels : call.path = "/v2/services/" \o l
         THEN LET l == CHOOSE m \in Labels : call.path = "/v2/services/" \o m
              IN  Json([metadata |-> [guid |-> "s-" \o l],
                        entity |-> [label |-> l]])
    ELSE NotFound

\* What a call can get instead of the platform's answer: a failed command,
\* an in-band error, or a document without 'entity'.
FaultResponses ==
    {[exit |-> 1, out |-> <<>>],
     NotFound,
     Json([metadata |-> [guid |-> "g1"]])}

NoFault == [at |-> 0, response |-> Unused]

Faults(n) ==
    {NoFault} \cup [at : 1..n, response : FaultResponses]

RECURSIVE Served(_, _, _, _, _)
\* The answers so far and the answer to the next call, if one is issued.
ServedStep(service_instances, users_args, world, fault, rs, issued) ==
    IF Len(issued) <= Len(rs) THEN rs
    ELSE Served(service_instances, users_args, world, fault,
                Append(rs, IF fault.at = Len(rs) + 1 THEN fault.response
                           ELSE Serve(world, issued[Len(rs) + 1])))

\* The answers the calls of prepare_deploy_req_data get from the platform,
\* the at-th call getting the fault instead; rs holds the answers to the
\* calls issued so far.
Served(service_instances, users_args, world, fault, rs) ==
    ServedStep(service_instances, users_args, world, fault, rs,
               prepare_deploy_req_data(service_instances, users_args,
                                       rs).calls)

\* Scalars of the user arguments.
Scalars ==
    {[type |-> "str", repr |-> "x", dot |-> FALSE],
     [type |-> "float", repr |-> "1.5", dot |-> TRUE],
     [type |-> "float", repr |-> "1e+22", dot |-> FALSE]}

UsersArgs == {<<>>} \cup {[arg |-> v] : v \in Scalars}

\* Sequences of up to MaxInstances instance names.
InstanceLists == UNION {[1..n -> InstanceNames] : n \in 0..MaxInstances}

JarFiles == {"app.jar"}

\* The script has called a gearpump_helpers function and it has ended.
FinishGearpump(req, rs, end, next_pc) ==
    /\ request' = req
    /\ responses' = rs
    /\ calls' = end.calls
    /\ result' = [status |-> end.status, value |-> end.value]
    /\ files' = end.files
    /\ pc' = next_pc
    /\ UNCHANGED targetVars

GearpumpLogin ==
    /\ pc = "start"
    /\ \E http \in HttpResponses :
         FinishGearpump([op |-> "gearpump_login"], <<>>,
                        gearpump_login(files, http), "logged")

\* The file names the script uses.
FileNames == JarFiles \cup {GEARPUMP_COOKIE_NAME, REQUEST_BODY_FILE}

\* The script saves an object to a file.
SaveToFile ==
    /\ pc \in {"start", "logged"}
    /\ \E data \in Objects, filename \in FileNames :
         FinishGearpump([op |-> "save_to_file", data |-> data,
                         filename |-> filename], <<>>,
                        save_to_file(files, data, filename), pc)

\* The script loads a file.
LoadFile ==
    /\ pc \in {"start", "logged"}
    /\ \E filename \in FileNames :
         FinishGearpump([op |-> "load_file", filename |-> filename], <<>>,
                        load_file(files, filename), pc)

\* The script deletes a file.
DeleteFile ==
    /\ pc \in {"start", "logged"}
    /\ \E filename \in FileNames :
         FinishGearpump([op |-> "delete_file", filename |-> filename], <<>>,
                        delete_file(files, filename), pc)

\* The instance lists a caller can give, each with the answers its cf curl
\* calls get from a platform, with or without a fault.  The calls and their
\* answers do not depend on the user arguments, the jar or Gearpump.
Exchanges ==
    UNION {UNION {{[service_instances |-> b,
                    rs |-> Served(b, <<>>, world, fault, <<>>)] :
                      fault \in Faults(CallsPerInstance * Len(b))} :
                  world \in Worlds} :
           b \in InstanceLists}

\* The calls of prepare_deploy_req_data a caller can make, each with the
\* answers of the platform and with what the function did.
Preparations ==
    {[service_instances |-> x.service_instances,
      users_args |-> users_args,
      rs |-> x.rs,
      data |-> prepare_deploy_req_data(x.service_instances, users_args, x.rs)] :
        x \in Exchanges, users_args \in UsersArgs}

\* The script submits an application.
DeployToGearpump ==
    /\ pc \in {"start", "logged"}
    /\ \E p \in Preparations, jar \in JarFiles, http \in HttpResponses :
         FinishGearpump([op |-> "deploy_to_gearpump",
                         local_file_path |-> jar,
                         users_args |-> p.users_args,
                         bound_instances |-> p.service_instances],
                        p.rs,
                        deploy_to_gearpump(files, jar, p.data, http),
                        "done")

\* The script assembles a submission payload without submitting it.
PrepareDeployReqData ==
    /\ pc \in {"start", "logged"}
    /\ \E p \in Preparations :
         FinishGearpump([op |-> "prepare_deploy_req_data",
                         service_instances |-> p.service_instances,
                         users_args |-> p.users_args],
                        p.rs,
                        p.data @@ [files |-> files],
                        "done")

\* The jar may be there or not, and an earlier submission that failed may
\* have left its request body.
InitGearpump ==
    /\ pc = "start"
    /\ current_target = get_empty
    /\ arg_provided_target = get_empty
    /\ new_target = get_empty
    /\ login_required = FALSE
    /\ target_required = FALSE
    /\ raw_inputs = {}
    /\ getpass_calls = 0
    /\ request = NoRequest
    /\ responses = <<>>
    /\ calls = <<>>
    /\ result = NoResult
    /\ \E present \in SUBSET JarFiles, left \in SUBSET {REQUEST_BODY_FILE} :
         files = [n \in present \cup left |->
                     IF n \in JarFiles THEN "jar" ELSE "text"]

NextGearpump ==
    \/ GearpumpLogin
    \/ SaveToFile
    \/ LoadFile
    \/ DeleteFile
    \/ DeployToGearpump
    \/ PrepareDeployReqData

SpecGearpump == InitGearpump /\ [][NextGearpump]_vars

(***************************************************************************)
(* Properties of the Gearpump submission                                   *)
(***************************************************************************)

\* C10: after deploy_to_gearpump has finished, with the response or with an
\* error, neither the cookie file 'gpcookie' nor the request body file
\* 'request_body' is left on disk.
C10_NoFilesLeft ==
    (pc = "done" /\ request.op = "deploy_to_gearpump")
        => /\ GEARPUMP_COOKIE_NAME \notin DOMAIN files
           /\ REQUEST_BODY_FILE \notin DOMAIN files

\* prepare_deploy_req_data has ended.
Prepared == pc = "done" /\ request.op = "prepare_deploy_req_data"

\* What the platform answered about the i-th instance of a payload that was
\* assembled: the instance, its plan, its service and its temporary key.
InstanceAnswer(i) == responses[CallsPerInstance * (i - 1) + 2].out[1]
PlanAnswer(i) == responses[CallsPerInstance * (i - 1) + 3].out[1]
ServiceAnswer(i) == responses[CallsPerInstance * (i - 1) + 4].out[1]
KeyAnswer(i) == responses[CallsPerInstance * (i - 1) + 6].out[1]

\* The positions of the given instances whose service has the label.
Labelled(label) ==
    {i \in 1..Len(request.service_instances) :
        ServiceAnswer(i).entity.label = label}

\* The service labels of the given instances.
GivenLabels ==
    {ServiceAnswer(i).entity.label : i \in 1..Len(request.service_instances)}

\* The single-element list that describes the i-th instance.
Description(i) ==
    <<[label |-> ServiceAnswer(i).entity.label,
       name |-> request.service_instances[i],
       plan |-> PlanAnswer(i).entity.name,
       tags |-> InstanceAnswer(i).entity.tags,
       credentials |-> KeyAnswer(i).entity.credentials]>>

\* The keys of the payload are the labels of the instances and 'usersArgs'.
PayloadKeys ==
    (Prepared /\ result.status = "ok")
        => DOMAIN result.value[1] = GivenLabels \cup {"usersArgs"}

\* Every label maps to the description of the last instance that has it.
PayloadEntries ==
    (Prepared /\ result.status = "ok")
        => \A label \in GivenLabels :
              result.value[1][label] = Description(Max(Labelled(label)))

\* 'usersArgs' maps to the users_args the caller gave.
PayloadUsersArgs ==
    (Prepared /\ result.status = "ok")
        => result.value[1].usersArgs = request.users_args

\* A failure of any step ends the function with the error and no payload.
NoPartialPayload ==
    (Prepared /\ result.status # "ok")
        => result.value = <<>>

\* C11: on normal return prepare_deploy_req_data yields a mapping whose keys
\* are the service labels of the given instances plus 'usersArgs';
\* 'usersArgs' maps to users_args and each label to the single-element list
\* {label, name, plan, tags, credentials} of the last instance that has the
\* label; a failing step ends the function with the error and no payload.
C11_PayloadOfInstances ==
    /\ PayloadKeys
    /\ PayloadEntries
    /\ PayloadUsersArgs
    /\ NoPartialPayload

====
